---- MODULE Spec2Model ----
(***************************************************************************)
(* A model of rabbit.py (Wiki Corkboard): the retrying HTTP helper _get,   *)
(* the summary lookup with its search fallback (search_title_best,         *)
(* safe_get_summary) and the link extractor get_internal_links.            *)
(*                                                                         *)
(* One specification per call modelled: SpecGet (one call of _get, a step  *)
(* per request; SpecGetFair adds that the call keeps running), SpecSummary *)
(* (one call of safe_get_summary, a step per call of _get) and SpecLinks   *)
(* (one call of get_internal_links from a navigation action, a step per    *)
(* call of _get and per anchor scanned); and Spec, the Streamlit script    *)
(* run once per interaction on st.session_state, a step per handler. The   *)
(* variables of the parts a specification does not model stay idle.        *)
(*                                                                         *)
(* Text is modelled as sequences of one-character strings, so that the     *)
(* string operations of the code (startswith, split, replace, lower,       *)
(* unquote, the "in" substring test) are computed, not assumed.            *)
(* Durations are in tenths of a second.                                    *)
(***************************************************************************)
EXTENDS Integers, Sequences, FiniteSets, TLC

VARIABLES
    \* _get (rabbit.py 18-39)
    g_pc,        \* "loop" | "returned" | "raised" ("idle": no call is modelled)
    g_tries,     \* the parameter tries
    g_i,         \* the loop variable i (number of attempts already made)
    g_last_err,  \* last_err
    g_log,       \* the responses SESSION.get produced, one per request issued
    g_sleeps,    \* the argument of every sleep() call, in order
    g_ret,       \* the response returned or the error raised
    \* get_internal_links (rabbit.py 78-136)
    l_pc,        \* "html" | "scan" | "shuffle" | "fallback" | "returned" | "raised" | "idle"
    l_title,     \* the parameter title
    l_max,       \* the parameter max_links
    l_anchors,   \* soup.find_all("a", href=True)
    l_idx,       \* number of anchors the for loop has consumed
    l_pairs,     \* pairs
    l_seen,      \* seen
    l_html,      \* how the HTML path ended: "none" | "failed" | "empty" | "links"
    l_listing,   \* the response of the link-listing endpoint, once requested
    l_requests,  \* the endpoints requested so far, in order
    l_ret,       \* the returned list
    \* the navigation action that called get_internal_links (rabbit.py 206-215,
    \* 222-232, 242-253, 306-317), from that call on
    nav_pc,         \* "links" | "done" | "error"
    current_links,  \* st.session_state.current_links
    \* safe_get_summary / search_title_best (rabbit.py 49-76)
    s_pc,        \* "direct" | "opensearch" | "fulltext" | "decide" | "returned" | "raised" | "idle"
    s_query,     \* the parameter query_or_title
    s_handling,  \* the exceptions being handled (innermost last)
    s_best,      \* the value search_title_best returned
    s_search,    \* how search_title_best ended: "none" | "returned" | "raised"
    s_requests,  \* the requests issued so far, each with its outcome
    s_ret,       \* the summary returned or the error raised
    \* the Streamlit script (rabbit.py 196-326), run once per interaction
    stack,         \* st.session_state.stack
    current,       \* st.session_state.current
    current_data,  \* st.session_state.current_data
    u_keys,        \* which of the keys "current_data" and "current_links"
                   \* st.session_state holds
    u_pc,          \* where the script run is: "toolbar" | "startup" | "render" | "leads"
                   \* | "end" | "crashed" ("idle": no session is modelled)
    u_click,       \* the widget whose click started the run
    u_errors,      \* the st.error messages of the run, in order
    u_leads,       \* the number of lead buttons the page shows
    u_runs         \* the number of script runs of the session so far

getVars  == <<g_pc, g_tries, g_i, g_last_err, g_log, g_sleeps, g_ret>>
linkVars == <<l_pc, l_title, l_max, l_anchors, l_idx, l_pairs, l_seen, l_html,
              l_listing, l_requests, l_ret, nav_pc, current_links>>
sumVars  == <<s_pc, s_query, s_handling, s_best, s_search, s_requests, s_ret>>
uiVars   == <<stack, current, current_data, u_keys, u_pc, u_click, u_errors, u_leads, u_runs>>
vars     == <<getVars, linkVars, sumVars, uiVars>>

None == [none |-> TRUE]

(***************************************************************************)
(* Bounds of the model.                                                    *)
(***************************************************************************)
MaxTries   == 3   \* largest value of the parameter tries
MaxAnchors == 3   \* most anchors in an article's HTML
MaxLinks   == 2   \* largest value of the parameter max_links
MaxListing == 3   \* most entries in a link-listing response

(***************************************************************************)
(* Python sequences.                                                       *)
(***************************************************************************)
\* s[:n]
Take(s, n) == SubSeq(s, 1, IF n < Len(s) THEN n ELSE Len(s))

\* s[n:]
Drop(s, n) == SubSeq(s, n + 1, Len(s))

\* s.startswith(p)
StartsWith(s, p) == Len(s) >= Len(p) /\ SubSeq(s, 1, Len(p)) = p

\* The least k with s[k:k+len(p)] = p, or 0: 1 + s.find(p)
Find(s, p) ==
    LET hits == {k \in 1..(Len(s) - Len(p) + 1) : SubSeq(s, k, k + Len(p) - 1) = p}
    IN  IF hits = {} THEN 0 ELSE CHOOSE k \in hits : \A j \in hits : k <= j

\* p in s
Contains(s, p) == Find(s, p) # 0

\* s.split(p, 1)[0]
SplitHead(s, p) == IF Find(s, p) = 0 THEN s ELSE SubSeq(s, 1, Find(s, p) - 1)

\* s.split(p, 1)[1], for s that contains p
SplitTail(s, p) == Drop(s, Find(s, p) + Len(p) - 1)

\* s.replace("_", " ")
ReplaceUnderscore(s) == [k \in 1..Len(s) |-> IF s[k] = "_" THEN " " ELSE s[k]]

UpperToLower ==
    [A |-> "a", B |-> "b", C |-> "c", D |-> "d", E |-> "e", F |-> "f", G |-> "g",
     H |-> "h", M |-> "m", O |-> "o", P |-> "p"]

\* s.lower()
Lower(s) ==
    [k \in 1..Len(s) |-> IF s[k] \in DOMAIN UpperToLower THEN UpperToLower[s[k]] ELSE s[k]]

\* s.strip()
RECURSIVE LStrip(_)
LStrip(s) == IF s # <<>> /\ Head(s) = " " THEN LStrip(Tail(s)) ELSE s
RECURSIVE RStrip(_)
RStrip(s) == IF s # <<>> /\ s[Len(s)] = " " THEN RStrip(SubSeq(s, 1, Len(s) - 1)) ELSE s
Strip(s) == RStrip(LStrip(s))

Digits == {"0", "1", "2", "3", "4", "5", "6", "7", "8", "9"}

\* s.isdigit()
IsDigit(s) == s # <<>> /\ \A k \in 1..Len(s) : s[k] \in Digits

\* The percent escapes unquote() decodes, as far as the model's texts use them.
PercentCodes ==
    [x \in {<<"2", "0">>, <<"6", "1">>, <<"5", "F">>, <<"3", "A">>} |->
        CASE x = <<"2", "0">> -> " "
          [] x = <<"6", "1">> -> "a"
          [] x = <<"5", "F">> -> "_"
          [] x = <<"3", "A">> -> ":"]

\* urllib.parse.unquote(s)
RECURSIVE Unquote(_)
Unquote(s) ==
    IF s = <<>> THEN <<>>
    ELSE IF Head(s) = "%" /\ Len(s) >= 3 /\ SubSeq(s, 2, 3) \in DOMAIN PercentCodes
         THEN <<PercentCodes[SubSeq(s, 2, 3)]>> \o Unquote(Drop(s, 3))
         ELSE <<Head(s)>> \o Unquote(Tail(s))

(***************************************************************************)
(* _get(url, tries=3, timeout=12): rabbit.py 18-39.                         *)
(***************************************************************************)
DefaultTries == 3

\* What one SESSION.get can produce: a response with a status code and
\* possibly a Retry-After header, or a requests.RequestException.
\* A Retry-After header is absent, a number of tenths of a second (float()
\* succeeds; sleep() rejects a negative one) or text float() rejects.
RetryAfterValues == {None, [num |-> 20], [num |-> -10], [text |-> "date"]}

Responses ==
    {[kind |-> "exception", status |-> 0, retry_after |-> None]}
    \cup {[kind |-> "response", status |-> st, retry_after |-> None] : st \in {200, 404, 500}}
    \cup {[kind |-> "response", status |-> st, retry_after |-> ra] :
            st \in {429, 503}, ra \in RetryAfterValues}

\* requests.HTTPError(f"{r.status_code} on {url}"), made at attempt i (0-based)
HTTPError(status, i) == [type |-> "HTTPError", status |-> status, attempt |-> i]

\* the requests.RequestException SESSION.get raised at attempt i
NetworkError(i) == [type |-> "RequestException", status |-> 0, attempt |-> i]

RuntimeError == [type |-> "RuntimeError", status |-> 0, attempt |-> -1]

\* sleep(1.5 * (i + 1))
RateLimitBackoff(i) == 15 * (i + 1)

\* ErrorBackoff as a delay that does not depend on the attempt.
ErrorBackoffFixed(i) == 5

\* sleep(0.5 * (i + 1))
ErrorBackoff(i) == 5 * (i + 1)

\* Lines 24-31: the delay slept after a 429/503 response.
RateLimitDelay(ra, i) ==
    IF ra = None THEN RateLimitBackoff(i)
    ELSE IF "num" \in DOMAIN ra /\ ra.num >= 0 THEN ra.num
    ELSE RateLimitBackoff(i)

\* r.status_code in (429, 503)
IsRateLimited(r) == r.status \in {429, 503}

\* IsErrorStatus for server errors only.
IsErrorStatusServerOnly(r) == r.status >= 500 /\ r.status < 600

\* r.raise_for_status() raises
IsErrorStatus(r) == r.status >= 400 /\ r.status < 600

\* GetLoopRuns with the loop bound off by one.
GetLoopRunsOnceMore == g_pc = "loop" /\ g_i <= g_tries

\* for i in range(tries): another iteration runs
GetLoopRuns == g_pc = "loop" /\ g_i < g_tries

\* SESSION.get raises: lines 36-38.
GetNetworkError ==
    /\ GetLoopRuns
    /\ \E r \in Responses :
        /\ r.kind = "exception"
        /\ g_log' = Append(g_log, r)
        /\ g_last_err' = NetworkError(g_i)
        /\ g_sleeps' = Append(g_sleeps, ErrorBackoff(g_i))
    /\ g_i' = g_i + 1
    /\ UNCHANGED <<g_pc, g_tries, g_ret>>
    /\ UNCHANGED <<linkVars, sumVars, uiVars>>

\* A 429 or 503 response: lines 23-33.
GetRateLimited ==
    /\ GetLoopRuns
    /\ \E r \in Responses :
        /\ r.kind = "response" /\ IsRateLimited(r)
        /\ g_log' = Append(g_log, r)
        /\ g_sleeps' = Append(g_sleeps, RateLimitDelay(r.retry_after, g_i))
        /\ g_last_err' = HTTPError(r.status, g_i)
    /\ g_i' = g_i + 1
    /\ UNCHANGED <<g_pc, g_tries, g_ret>>
    /\ UNCHANGED <<linkVars, sumVars, uiVars>>

\* Another error status: raise_for_status raises an HTTPError, which is a
\* RequestException, so line 36 catches it: lines 34, 36-38.
GetHttpError ==
    /\ GetLoopRuns
    /\ \E r \in Responses :
        /\ r.kind = "response" /\ ~IsRateLimited(r) /\ IsErrorStatus(r)
        /\ g_log' = Append(g_log, r)
        /\ g_last_err' = HTTPError(r.status, g_i)
        /\ g_sleeps' = Append(g_sleeps, ErrorBackoff(g_i))
    /\ g_i' = g_i + 1
    /\ UNCHANGED <<g_pc, g_tries, g_ret>>
    /\ UNCHANGED <<linkVars, sumVars, uiVars>>

\* A good response: lines 34-35.
GetSuccess ==
    /\ GetLoopRuns
    /\ \E r \in Responses :
        /\ r.kind = "response" /\ ~IsRateLimited(r) /\ ~IsErrorStatus(r)
        /\ g_log' = Append(g_log, r)
        /\ g_ret' = r
    /\ g_pc' = "returned"
    /\ UNCHANGED <<g_tries, g_i, g_last_err, g_sleeps>>
    /\ UNCHANGED <<linkVars, sumVars, uiVars>>

\* The loop is over: line 39.
GetExhausted ==
    /\ g_pc = "loop" /\ g_i >= g_tries
    /\ g_pc' = "raised"
    /\ g_ret' = IF g_last_err # None THEN g_last_err ELSE RuntimeError
    /\ UNCHANGED <<g_tries, g_i, g_last_err, g_log, g_sleeps>>
    /\ UNCHANGED <<linkVars, sumVars, uiVars>>

(***************************************************************************)
(* get_internal_links(title, max_links=5): rabbit.py 78-136.               *)
(***************************************************************************)
WikiPrefix  == <<"/", "w", "i", "k", "i", "/">>
DotPrefix   == <<".", "/">>
RedlinkMark == <<"r", "e", "d", "l", "i", "n", "k", "=", "1">>
MainPage    == <<"M", "a", "i", "n", "_", "P", "a", "g", "e">>

\* The labels of line 110.
StopLabels ==
    {<<"e", "d", "i", "t">>,
     <<"c", "i", "t", "a", "t", "i", "o", "n", " ", "n", "e", "e", "d", "e", "d">>,
     <<"h", "e", "l", "p">>,
     <<"s", "e", "e", " ", "a", "l", "s", "o">>}

\* The titles get_internal_links is called with.
Titles == {<<"C", "a", "t">>, <<"A", "_", "b">>}

\* The anchors an article's HTML is made of: href, visible text, class list.
Anchor(href, text, class) == [href |-> href, text |-> text, class |-> class]

AnchorLibrary ==
    <<Anchor(<<"/", "w", "i", "k", "i", "/", "C", "a", "t">>, <<"C", "a", "t">>, {}),
     Anchor(<<"/", "w", "i", "k", "i", "/", "C", "a", "t", "#", "H", "i", "s", "t", "o", "r", "y">>, <<"H", "i", "s", "t", "o", "r", "y">>, {}),
     Anchor(<<".", "/", "%", "6", "1", "%", "2", "0", "B">>, <<"a", " ", "b">>, {}),
     Anchor(<<" ", "/", "w", "i", "k", "i", "/", "A", "_", "b">>, <<"A", "b">>, {"mw-redirect"}),
     Anchor(<<"/", "w", "i", "k", "i", "/", "F", "i", "l", "e", ":", "C", "a", "t", ".", "j", "p", "g">>, <<"C", "a", "t", " ", "p", "h", "o", "t", "o">>, {}),
     Anchor(<<"/", "w", "i", "k", "i", "/", "M", "a", "i", "n", "_", "P", "a", "g", "e">>, <<"M", "a", "i", "n", " ", "P", "a", "g", "e">>, {}),
     Anchor(<<".", "/", "D", "o", "g">>, <<"D", "o", "g">>, {"new"}),
     Anchor(<<".", "/", "D", "o", "g">>, <<"D", "o", "g", "s">>, {}),
     Anchor(<<"/", "w", "i", "k", "i", "/", "E", "m", "u", "?", "r", "e", "d", "l", "i", "n", "k", "=", "1">>, <<"E", "m", "u">>, {}),
     Anchor(<<".", "/", "F", "o", "x">>, <<"F", "o", "x">>, {})>>

\* Anchors that only the longer articles below contain: a target followed by
\* a query and a fragment, a bare fragment, a namespace separator that is
\* percent-encoded.
MoreAnchors ==
    <<Anchor(<<"/", "w", "i", "k", "i", "/", "E", "m", "u", "?", "a", "c", "t", "i", "o", "n", "=", "r", "a", "w", "#", "t", "o", "p">>, <<"E", "m", "u">>, {}),
      Anchor(<<".", "/", "#", "t", "o", "p">>, <<"T", "o", "p">>, {}),
      Anchor(<<".", "/", "C", "a", "t", "e", "g", "o", "r", "y", "%", "3", "A", "P", "e", "t", "s">>, <<"P", "e", "t", "s">>, {})>>

AllAnchors == AnchorLibrary \o MoreAnchors

\* Every article of at most MaxAnchors anchors, each anchor named by its
\* position in AnchorLibrary.
Docs == UNION {[1..n -> 1..Len(AnchorLibrary)] : n \in 0..MaxAnchors}

\* The article with the anchors /wiki/Cat, /wiki/File:Cat.jpg,
\* /wiki/Main_Page and /wiki/Cat#History, in this order.
CatArticle == <<1, 5, 6, 2>>

\* Longer articles: CatArticle, and two with four distinct targets, a
\* repeated target and anchors of MoreAnchors.
LongDocs == {CatArticle, <<3, 8, 4, 10, 11>>, <<12, 11, 13, 4, 3>>}

\* The k-th anchor of an article.
AnchorAt(doc, k) == AllAnchors[doc[k]]

\* href = a["href"].strip(): line 85
HrefOf(a) == Strip(a.href)

\* Lines 91-96: the href has one of the two in-wiki prefixes.
HasWikiPrefix(href) == StartsWith(href, WikiPrefix) \/ StartsWith(href, DotPrefix)

\* TailOf with the fragment left in place.
TailOfKeepsFragment(href) ==
    LET tail == IF StartsWith(href, WikiPrefix) THEN SplitTail(href, WikiPrefix)
                ELSE Drop(href, 2)
    IN  SplitHead(tail, <<"?">>)

\* Lines 91-97: the target path, with its fragment and its query removed.
TailOf(href) ==
    LET tail == IF StartsWith(href, WikiPrefix) THEN SplitTail(href, WikiPrefix)
                ELSE Drop(href, 2)
    IN  SplitHead(SplitHead(tail, <<"#">>), <<"?">>)

\* decoded = unquote(tail): line 104
DecodedOf(a) == Unquote(TailOf(HrefOf(a)))

\* nice = label.replace("_", " ").strip(): line 109
NiceOf(a) == Strip(ReplaceUnderscore(a.text))

\* Lines 105 and 114: lower-case, underscores as spaces.
Normalize(s) == Lower(ReplaceUnderscore(s))

\* Line 105: the anchor points at the article itself.
IsSelfLink(a, title) == Normalize(DecodedOf(a)) = Normalize(title)

\* Lines 89 and 107: the anchor is flagged as a link to a missing page.
HasRedlinkQuery(a) == Contains(HrefOf(a), RedlinkMark)
\* HasNewClass without the class test of line 107.
HasNewClassIgnored(a) == FALSE

HasNewClass(a) == "new" \in a.class

\* Lines 87-113: the loop body reaches a "continue" for this anchor.
Rejected(a, title) ==
    \/ a.text = <<>> \/ Len(a.text) < 2
    \/ HasRedlinkQuery(a)
    \/ ~HasWikiPrefix(HrefOf(a))
    \/ TailOf(HrefOf(a)) = <<>>
    \/ Contains(TailOf(HrefOf(a)), <<":">>)
    \/ TailOf(HrefOf(a)) = MainPage
    \/ IsSelfLink(a, title)
    \/ HasNewClass(a)
    \/ Lower(NiceOf(a)) \in StopLabels
    \/ IsDigit(NiceOf(a))

\* key = decoded.lower().replace("_", " "): line 114
KeyOf(a) == ReplaceUnderscore(Lower(DecodedOf(a)))

\* The pair (decoded, nice) of line 117; src records the position of the
\* anchor it was made from (0 for a pair made from the link listing).
Pair(target, label, src) == [target |-> target, label |-> label, src |-> src]

\* Lines 115-117: pairs after the loop body has handled an accepted anchor.
PairsWith(pairs, seen, a, src) ==
    IF KeyOf(a) \notin seen THEN Append(pairs, Pair(DecodedOf(a), NiceOf(a), src))
    ELSE pairs

\* ScanBreaks with the test of line 118 never true.
ScanBreaksNever(pairs, max_links) == FALSE

\* Line 118: the loop breaks.
ScanBreaks(pairs, max_links) == Len(pairs) >= max_links * 3

\* The orders random.shuffle can leave a list in.
Shuffles(s) == {[k \in 1..Len(s) |-> s[p[k]]] : p \in Permutations(1..Len(s))}

\* Truncate without the slice: the whole list is returned.
TruncateKeepsAll(s, max_links) == s

\* pairs[:max_links]: line 122
Truncate(s, max_links) == Take(s, max_links)

\* The parameters of a call.
LinksCall ==
    /\ l_pc = "html" /\ l_title \in Titles /\ l_max \in 0..MaxLinks
    /\ l_anchors = <<>> /\ l_idx = 0 /\ l_pairs = <<>> /\ l_seen = {}
    /\ l_html = "none" /\ l_listing = None /\ l_requests = <<>> /\ l_ret = None
    /\ nav_pc = "links" /\ current_links = None

\* except Exception: pass (lines 123-124): where control goes when the HTML
\* path raises.
HtmlExcept == "fallback"

\* FallbackExcept letting the exception through.
FallbackExceptReraises == [pc |-> "raised", ret |-> None]

\* except Exception: return [] (lines 135-136): how the call ends when the
\* listing path raises.
FallbackExcept == [pc |-> "returned", ret |-> <<>>]

\* Lines 80-81 raise (the request fails after its retries): line 123.
HtmlFetchFails ==
    /\ l_pc = "html"
    /\ l_requests' = Append(l_requests, "html")
    /\ l_html' = "failed"
    /\ l_pc' = HtmlExcept
    /\ UNCHANGED <<l_title, l_max, l_anchors, l_idx, l_pairs, l_seen, l_listing, l_ret>>
    /\ UNCHANGED <<nav_pc, current_links, getVars, sumVars, uiVars>>

\* Lines 80-84: the article's HTML arrives and is parsed.
HtmlFetchOk ==
    /\ l_pc = "html"
    /\ l_requests' = Append(l_requests, "html")
    /\ \E doc \in Docs \cup LongDocs : l_anchors' = doc
    /\ l_pc' = "scan"
    /\ UNCHANGED <<l_title, l_max, l_idx, l_pairs, l_seen, l_html, l_listing, l_ret>>
    /\ UNCHANGED <<nav_pc, current_links, getVars, sumVars, uiVars>>

\* One iteration of the loop of lines 84-119 that ends in a "continue".
ScanReject ==
    /\ l_pc = "scan" /\ l_idx < Len(l_anchors)
    /\ Rejected(AnchorAt(l_anchors, l_idx + 1), l_title)
    /\ l_idx' = l_idx + 1
    /\ UNCHANGED <<l_pc, l_title, l_max, l_anchors, l_pairs, l_seen, l_html,
                   l_listing, l_requests, l_ret>>
    /\ UNCHANGED <<nav_pc, current_links, getVars, sumVars, uiVars>>

\* One iteration that reaches lines 114-119.
ScanAccept ==
    /\ l_pc = "scan" /\ l_idx < Len(l_anchors)
    /\ LET a == AnchorAt(l_anchors, l_idx + 1)
       IN  /\ ~Rejected(a, l_title)
           /\ l_pairs' = PairsWith(l_pairs, l_seen, a, l_idx + 1)
           /\ l_seen' = l_seen \cup {KeyOf(a)}
    /\ l_idx' = l_idx + 1
    /\ l_pc' = IF ScanBreaks(l_pairs', l_max) THEN "shuffle" ELSE "scan"
    /\ UNCHANGED <<l_title, l_max, l_anchors, l_html, l_listing, l_requests, l_ret>>
    /\ UNCHANGED <<nav_pc, current_links, getVars, sumVars, uiVars>>

\* The loop of lines 84-119 is over: it ran out of anchors or reached the
\* break of line 119.
ScanOver == l_pc = "shuffle" \/ (l_pc = "scan" /\ l_idx = Len(l_anchors))

\* Lines 120-122 with pairs not empty.
HtmlReturn ==
    /\ ScanOver /\ l_pairs # <<>>
    /\ \E shuffled \in Shuffles(l_pairs) :
        /\ l_pairs' = shuffled
        /\ l_ret' = Truncate(shuffled, l_max)
    /\ l_html' = "links"
    /\ l_pc' = "returned"
    /\ UNCHANGED <<l_title, l_max, l_anchors, l_idx, l_seen, l_listing, l_requests>>
    /\ UNCHANGED <<nav_pc, current_links, getVars, sumVars, uiVars>>

\* Lines 120-121 with pairs empty: control falls through to line 125. The
\* locals of the HTML path are dead from here on.
HtmlEmpty ==
    /\ ScanOver /\ l_pairs = <<>>
    /\ l_html' = "empty"
    /\ l_pc' = "fallback"
    /\ l_anchors' = <<>> /\ l_idx' = 0 /\ l_seen' = {}
    /\ UNCHANGED <<l_title, l_max, l_pairs, l_listing, l_requests, l_ret>>
    /\ UNCHANGED <<nav_pc, current_links, getVars, sumVars, uiVars>>

\* The entries of a link-listing response (action=parse&prop=links): a dict
\* with the keys "ns", "*" and, for a page that exists, "exists"; or a value
\* that is no dict.
Entry(ns, star, exists) == [dict |-> TRUE, ns |-> ns, star |-> star, exists |-> exists]

EntryLibrary ==
    <<Entry(0, <<"D", "o", "g">>, TRUE),
      Entry(0, <<"D", "O", "G">>, TRUE),
      Entry(0, <<"C", "a", "t">>, TRUE),
      Entry(0, <<"A", "_", "b">>, TRUE),
      Entry(0, <<"E", "m", "u">>, FALSE),
      Entry(14, <<"C", "a", "t", "e", "g", "o", "r", "y", ":", "P", "e", "t", "s">>, TRUE),
      [dict |-> FALSE, ns |-> 0, star |-> <<>>, exists |-> FALSE]>>

\* Every listing of at most MaxListing entries, each entry named by its
\* position in EntryLibrary.
Listings == UNION {[1..n -> 1..Len(EntryLibrary)] : n \in 0..MaxListing}

EntryAt(listing, k) == EntryLibrary[listing[k]]

\* An entry raises in the comprehension of line 131 (l.get on a non-dict).
ListingRaises(listing) == \E k \in 1..Len(listing) : ~EntryAt(listing, k).dict

\* EntryKept without the test for the "exists" key.
EntryKeptIgnoringExists(e) == e.ns = 0 /\ e.star # <<>>

\* The condition of the comprehension of line 131.
EntryKept(e) == e.ns = 0 /\ e.star # <<>> /\ e.exists

\* titles of line 131
RECURSIVE KeptTitles(_)
KeptTitles(listing) ==
    IF listing = <<>> THEN <<>>
    ELSE LET e == EntryLibrary[Head(listing)]
         IN  (IF EntryKept(e) THEN <<e.star>> ELSE <<>>) \o KeptTitles(Tail(listing))

\* list(dict.fromkeys(titles)): line 132
RECURSIVE DictFromKeys(_)
DictFromKeys(titles) ==
    IF titles = <<>> THEN <<>>
    ELSE LET init == DictFromKeys(SubSeq(titles, 1, Len(titles) - 1))
             last == titles[Len(titles)]
         IN  IF \E k \in 1..Len(init) : init[k] = last THEN init ELSE Append(init, last)

\* [(t, t.replace("_", " ")) for t in titles[:max_links]]: line 134
ListingPairs(titles, max_links) ==
    LET cut == Truncate(titles, max_links)
    IN  [k \in 1..Len(cut) |-> Pair(cut[k], ReplaceUnderscore(cut[k]), 0)]

\* Lines 126-130 raise (the request fails after its retries, or the body is
\* not the JSON object expected): lines 135-136.
FallbackFails ==
    /\ l_pc = "fallback"
    /\ l_requests' = Append(l_requests, "links")
    /\ l_listing' = [failed |-> TRUE]
    /\ l_ret' = FallbackExcept.ret
    /\ l_pc' = FallbackExcept.pc
    /\ UNCHANGED <<l_title, l_max, l_anchors, l_idx, l_pairs, l_seen, l_html>>
    /\ UNCHANGED <<nav_pc, current_links, getVars, sumVars, uiVars>>

\* Lines 126-131 with a listing one of whose entries raises: lines 135-136.
FallbackMalformed ==
    /\ l_pc = "fallback"
    /\ l_requests' = Append(l_requests, "links")
    /\ \E listing \in Listings :
        /\ ListingRaises(listing)
        /\ l_listing' = [links |-> listing]
    /\ l_ret' = FallbackExcept.ret
    /\ l_pc' = FallbackExcept.pc
    /\ UNCHANGED <<l_title, l_max, l_anchors, l_idx, l_pairs, l_seen, l_html>>
    /\ UNCHANGED <<nav_pc, current_links, getVars, sumVars, uiVars>>

\* Lines 126-134.
FallbackReturn ==
    /\ l_pc = "fallback"
    /\ l_requests' = Append(l_requests, "links")
    /\ \E listing \in Listings :
        /\ ~ListingRaises(listing)
        /\ l_listing' = [links |-> listing]
        /\ \E shuffled \in Shuffles(DictFromKeys(KeptTitles(listing))) :
            l_ret' = ListingPairs(shuffled, l_max)
    /\ l_pc' = "returned"
    /\ UNCHANGED <<l_title, l_max, l_anchors, l_idx, l_pairs, l_seen, l_html>>
    /\ UNCHANGED <<nav_pc, current_links, getVars, sumVars, uiVars>>

\* The statement that called get_internal_links, in the try block of a
\* navigation action (lines 213, 230, 251, 315): the list returned is stored
\* and the action is complete; an exception would reach the handler of the
\* action (lines 214-215, 231-232, 252-253, 316-317), which reports it.
NavAfterLinks ==
    /\ nav_pc = "links" /\ l_pc \in {"returned", "raised"}
    /\ IF l_pc = "returned"
       THEN nav_pc' = "done" /\ current_links' = l_ret
       ELSE nav_pc' = "error" /\ UNCHANGED current_links
    /\ UNCHANGED <<l_pc, l_title, l_max, l_anchors, l_idx, l_pairs, l_seen, l_html,
                   l_listing, l_requests, l_ret>>
    /\ UNCHANGED <<getVars, sumVars, uiVars>>

(***************************************************************************)
(* JSON values as r.json() gives them, and the Python operations the code  *)
(* applies to them. An operation yields Ok(value) or Exc(exception type).  *)
(***************************************************************************)
JNull       == [t |-> "null"]
JStr(str)   == [t |-> "str", s |-> str]
JList(xs)   == [t |-> "list", items |-> xs]
JDict(flds) == [t |-> "dict", fields |-> flds]
EmptyFields == [k \in {} |-> JNull]

Ok(v)  == [ok |-> TRUE, val |-> v]
Exc(e) == [ok |-> FALSE, exc |-> e]

\* bool(v)
Truthy(v) ==
    CASE v.t = "null" -> FALSE
      [] v.t = "str"  -> v.s # ""
      [] v.t = "list" -> v.items # <<>>
      [] v.t = "dict" -> DOMAIN v.fields # {}

\* v[k] for an integer k >= 0
GetItem(v, k) ==
    CASE v.t = "list" -> IF k < Len(v.items) THEN Ok(v.items[k + 1]) ELSE Exc("IndexError")
      [] v.t = "dict" -> Exc("KeyError")
      [] v.t = "null" -> Exc("TypeError")

\* v[key] for a string key
GetKey(v, key) ==
    CASE v.t = "dict" -> IF key \in DOMAIN v.fields THEN Ok(v.fields[key]) ELSE Exc("KeyError")
      [] v.t = "list" -> Exc("TypeError")
      [] v.t = "null" -> Exc("TypeError")
      [] v.t = "str"  -> Exc("TypeError")

\* v.get(key, default)
DictGet(v, key, default) ==
    CASE v.t = "dict" -> Ok(IF key \in DOMAIN v.fields THEN v.fields[key] ELSE default)
      [] v.t = "list" -> Exc("AttributeError")
      [] v.t = "null" -> Exc("AttributeError")
      [] v.t = "str"  -> Exc("AttributeError")

(***************************************************************************)
(* search_title_best(query) and safe_get_summary(query_or_title):          *)
(* rabbit.py 49-76. Each call of _get is one step: it returns a response   *)
(* or raises.                                                              *)
(***************************************************************************)
\* What a request can produce: _get raises; or it returns and r.json()
\* raises; or r.json() gives a value.
GetRaises      == [got |-> FALSE, json |-> FALSE, body |-> JNull]
JsonRaises     == [got |-> TRUE, json |-> FALSE, body |-> JNull]
JsonBody(body) == [got |-> TRUE, json |-> TRUE, body |-> body]

\* The exception a failed request raises, tagged with the position of the
\* request among the requests of the call.
RequestError(outcome, n) ==
    [type |-> IF outcome.got THEN "JSONDecodeError" ELSE "HTTPError", request |-> n]

\* An exception raised while the body of request n is taken apart.
ShapeError(type, n) == [type |-> type, request |-> n]

Queries == {"Cat", "turing"}

\* The summaries the REST endpoint answers with.
SummaryBodies == {JDict([title |-> JStr(t)]) : t \in {"Cat", "Alan Turing"}}

SummaryOutcomes == {GetRaises, JsonRaises} \cup {JsonBody(b) : b \in SummaryBodies}

\* Bodies of the opensearch endpoint: [query, [titles], ...], and the shapes
\* an error or an empty answer takes.
OpenSearchBodies ==
    {JList(<<>>),
     JList(<<JStr("q")>>),
     JDict([error |-> JStr("x")]),
     JNull,
     JList(<<JStr("q"), JList(<<>>)>>),
     JList(<<JStr("q"), JList(<<JStr("")>>)>>),
     JList(<<JStr("q"), JList(<<JStr("Cat")>>)>>),
     JList(<<JStr("q"), JList(<<JStr("Alan Turing"), JStr("Cat")>>)>>)}

OpenSearchOutcomes == {GetRaises, JsonRaises} \cup {JsonBody(b) : b \in OpenSearchBodies}

\* Bodies of the full-text search endpoint: {"query": {"search": [hits]}}.
FullTextBodies ==
    {JList(<<>>),
     JDict(EmptyFields),
     JDict([query |-> JList(<<>>)]),
     JDict([query |-> JDict([search |-> JList(<<>>)])]),
     JDict([query |-> JDict([search |-> JList(<<JDict([pageid |-> JStr("1")])>>)])]),
     JDict([query |-> JDict([search |-> JList(<<JStr("Cat")>>)])]),
     JDict([query |-> JDict([search |-> JList(<<JDict([title |-> JStr("Cat")])>>)])]),
     JDict([query |-> JDict([search |->
        JList(<<JDict([title |-> JStr("Alan Turing")]), JDict([title |-> JStr("Cat")])>>)])])}

FullTextOutcomes == {GetRaises, JsonRaises} \cup {JsonBody(b) : b \in FullTextBodies}

\* How a block of statements ends.
Return(v)   == [kind |-> "return", val |-> v]
Raise(e)    == [kind |-> "raise", err |-> e]
FallThrough == [kind |-> "fallthrough"]

\* Lines 53-55 on the body d: "if d and d[1]: return d[1][0]".
OpenSearchBlock(d, n) ==
    IF ~Truthy(d) THEN FallThrough
    ELSE LET second == GetItem(d, 1)
         IN  IF ~second.ok THEN Raise(ShapeError(second.exc, n))
             ELSE IF ~Truthy(second.val) THEN FallThrough
             ELSE LET first == GetItem(second.val, 0)
                  IN  IF first.ok THEN Return(first.val)
                      ELSE Raise(ShapeError(first.exc, n))

\* Lines 61-64 on the body d.
FullTextBlock(d, n) ==
    LET query == DictGet(d, "query", JDict(EmptyFields))
    IN  IF ~query.ok THEN Raise(ShapeError(query.exc, n))
        ELSE LET hits == DictGet(query.val, "search", JList(<<>>))
             IN  IF ~hits.ok THEN Raise(ShapeError(hits.exc, n))
                 ELSE IF ~Truthy(hits.val) THEN FallThrough
                 ELSE LET hit == GetItem(hits.val, 0)
                      IN  IF ~hit.ok THEN Raise(ShapeError(hit.exc, n))
                          ELSE LET title == GetKey(hit.val, "title")
                               IN  IF title.ok THEN Return(title.val)
                                   ELSE Raise(ShapeError(title.exc, n))

\* The try block of lines 50-55, given what the request produced.
OpenSearchTry(outcome, n) ==
    IF outcome.got /\ outcome.json THEN OpenSearchBlock(outcome.body, n)
    ELSE Raise(RequestError(outcome, n))

\* The try block of lines 58-64, given what the request produced.
FullTextTry(outcome, n) ==
    IF outcome.got /\ outcome.json THEN FullTextBlock(outcome.body, n)
    ELSE Raise(RequestError(outcome, n))

\* get_summary_by_title (lines 45-47), given what the request produced.
SummaryCall(outcome, n) ==
    IF outcome.got /\ outcome.json THEN Return(outcome.body)
    ELSE Raise(RequestError(outcome, n))

\* The exception types the model raises; each is a subclass of Exception.
ExceptionTypes ==
    {"HTTPError", "JSONDecodeError", "IndexError", "KeyError", "TypeError", "AttributeError"}

\* Catches restricted to the errors of the request itself.
CatchesRequestErrorsOnly(e) == e.type = "HTTPError"

\* "except Exception" (lines 56, 65) catches e.
Catches(e) == e.type \in ExceptionTypes

\* AfterExceptPass with the caught exception left as the one being handled.
AfterExceptPassLeaks(handling, e) == Append(handling, e)

\* The exceptions being handled once "except Exception: pass" (lines 56-57,
\* 65-66) has caught e and has been left: e is no longer being handled.
AfterExceptPass(handling, e) == handling

\* A bare "raise" (line 75) raises the exception being handled.
BareRaise(handling) == handling[Len(handling)]

\* Line 67.
ReturnNone == JNull

\* NoTitleFound as "best is None".
NoTitleFoundIsNone(best) == best = JNull

\* "if not best" (line 74)
NoTitleFound(best) == ~Truthy(best)

\* One request, as the log keeps it.
Request(endpoint, arg, outcome) == [endpoint |-> endpoint, arg |-> arg, outcome |-> outcome]

NextRequest == Len(s_requests) + 1

SummaryEntry ==
    /\ s_pc = "direct" /\ s_query \in Queries /\ s_handling = <<>> /\ s_best = None
    /\ s_search = "none" /\ s_requests = <<>> /\ s_ret = None

\* Line 71 returns.
DirectLookupReturns ==
    /\ s_pc = "direct"
    /\ \E outcome \in SummaryOutcomes :
        /\ SummaryCall(outcome, NextRequest).kind = "return"
        /\ s_requests' = Append(s_requests, Request("summary", s_query, outcome))
        /\ s_ret' = SummaryCall(outcome, NextRequest)
    /\ s_pc' = "returned"
    /\ UNCHANGED <<s_query, s_handling, s_best, s_search>>
    /\ UNCHANGED <<getVars, linkVars, uiVars>>

\* Line 71 raises: the handler of line 72 is entered and calls
\* search_title_best (line 73).
DirectLookupRaises ==
    /\ s_pc = "direct"
    /\ \E outcome \in SummaryOutcomes :
        /\ SummaryCall(outcome, NextRequest).kind = "raise"
        /\ s_requests' = Append(s_requests, Request("summary", s_query, outcome))
        /\ s_handling' = Append(s_handling, SummaryCall(outcome, NextRequest).err)
    /\ s_pc' = "opensearch"
    /\ UNCHANGED <<s_query, s_best, s_search, s_ret>>
    /\ UNCHANGED <<getVars, linkVars, uiVars>>

\* Lines 50-55 return d[1][0].
OpenSearchReturns ==
    /\ s_pc = "opensearch"
    /\ \E outcome \in OpenSearchOutcomes :
        /\ OpenSearchTry(outcome, NextRequest).kind = "return"
        /\ s_requests' = Append(s_requests, Request("opensearch", s_query, outcome))
        /\ s_best' = OpenSearchTry(outcome, NextRequest).val
    /\ s_search' = "returned"
    /\ s_pc' = "decide"
    /\ UNCHANGED <<s_query, s_handling, s_ret>>
    /\ UNCHANGED <<getVars, linkVars, uiVars>>

\* Lines 50-54 end without a candidate: control reaches line 58.
OpenSearchNoCandidate ==
    /\ s_pc = "opensearch"
    /\ \E outcome \in OpenSearchOutcomes :
        /\ OpenSearchTry(outcome, NextRequest).kind = "fallthrough"
        /\ s_requests' = Append(s_requests, Request("opensearch", s_query, outcome))
    /\ s_pc' = "fulltext"
    /\ UNCHANGED <<s_query, s_handling, s_best, s_search, s_ret>>
    /\ UNCHANGED <<getVars, linkVars, uiVars>>

\* An exception the handlers of search_title_best do not catch leaves it,
\* and with it safe_get_summary.
SearchPropagates(e) ==
    /\ s_search' = "raised"
    /\ s_pc' = "raised"
    /\ s_ret' = Raise(e)
    /\ UNCHANGED <<s_handling, s_best>>

\* Lines 50-55 raise: lines 56-57 catch it and control reaches line 58.
OpenSearchRaises ==
    /\ s_pc = "opensearch"
    /\ \E outcome \in OpenSearchOutcomes :
        /\ OpenSearchTry(outcome, NextRequest).kind = "raise"
        /\ s_requests' = Append(s_requests, Request("opensearch", s_query, outcome))
        /\ LET e == OpenSearchTry(outcome, NextRequest).err
           IN  IF Catches(e)
               THEN /\ s_handling' = AfterExceptPass(s_handling, e)
                    /\ s_pc' = "fulltext"
                    /\ UNCHANGED <<s_best, s_search, s_ret>>
               ELSE SearchPropagates(e)
    /\ UNCHANGED s_query
    /\ UNCHANGED <<getVars, linkVars, uiVars>>

\* Lines 58-64 return hits[0]["title"].
FullTextReturns ==
    /\ s_pc = "fulltext"
    /\ \E outcome \in FullTextOutcomes :
        /\ FullTextTry(outcome, NextRequest).kind = "return"
        /\ s_requests' = Append(s_requests, Request("search", s_query, outcome))
        /\ s_best' = FullTextTry(outcome, NextRequest).val
    /\ s_search' = "returned"
    /\ s_pc' = "decide"
    /\ UNCHANGED <<s_query, s_handling, s_ret>>
    /\ UNCHANGED <<getVars, linkVars, uiVars>>

\* Lines 58-63 end without a hit: line 67 returns None.
FullTextNoHit ==
    /\ s_pc = "fulltext"
    /\ \E outcome \in FullTextOutcomes :
        /\ FullTextTry(outcome, NextRequest).kind = "fallthrough"
        /\ s_requests' = Append(s_requests, Request("search", s_query, outcome))
    /\ s_best' = ReturnNone
    /\ s_search' = "returned"
    /\ s_pc' = "decide"
    /\ UNCHANGED <<s_query, s_handling, s_ret>>
    /\ UNCHANGED <<getVars, linkVars, uiVars>>

\* Lines 58-64 raise: lines 65-66 catch it and line 67 returns None.
FullTextRaises ==
    /\ s_pc = "fulltext"
    /\ \E outcome \in FullTextOutcomes :
        /\ FullTextTry(outcome, NextRequest).kind = "raise"
        /\ s_requests' = Append(s_requests, Request("search", s_query, outcome))
        /\ LET e == FullTextTry(outcome, NextRequest).err
           IN  IF Catches(e)
               THEN /\ s_handling' = AfterExceptPass(s_handling, e)
                    /\ s_best' = ReturnNone
                    /\ s_search' = "returned"
                    /\ s_pc' = "decide"
                    /\ UNCHANGED s_ret
               ELSE SearchPropagates(e)
    /\ UNCHANGED s_query
    /\ UNCHANGED <<getVars, linkVars, uiVars>>

\* Lines 74-75: no title was found, the exception being handled is raised.
NoBestReraise ==
    /\ s_pc = "decide" /\ NoTitleFound(s_best)
    /\ s_ret' = Raise(BareRaise(s_handling))
    /\ s_pc' = "raised"
    /\ UNCHANGED <<s_query, s_handling, s_best, s_search, s_requests>>
    /\ UNCHANGED <<getVars, linkVars, uiVars>>

\* Line 76 returns the summary of the title found.
SecondLookupReturns ==
    /\ s_pc = "decide" /\ ~NoTitleFound(s_best)
    /\ \E outcome \in SummaryOutcomes :
        /\ SummaryCall(outcome, NextRequest).kind = "return"
        /\ s_requests' = Append(s_requests, Request("summary", s_best.s, outcome))
        /\ s_ret' = SummaryCall(outcome, NextRequest)
    /\ s_pc' = "returned"
    /\ UNCHANGED <<s_query, s_handling, s_best, s_search>>
    /\ UNCHANGED <<getVars, linkVars, uiVars>>

\* Line 76 raises: the new exception leaves safe_get_summary.
SecondLookupRaises ==
    /\ s_pc = "decide" /\ ~NoTitleFound(s_best)
    /\ \E outcome \in SummaryOutcomes :
        /\ SummaryCall(outcome, NextRequest).kind = "raise"
        /\ s_requests' = Append(s_requests, Request("summary", s_best.s, outcome))
        /\ s_ret' = SummaryCall(outcome, NextRequest)
    /\ s_pc' = "raised"
    /\ UNCHANGED <<s_query, s_handling, s_best, s_search>>
    /\ UNCHANGED <<getVars, linkVars, uiVars>>

GetIdle ==
    /\ g_pc = "idle" /\ g_tries = 0 /\ g_i = 0 /\ g_last_err = None
    /\ g_log = <<>> /\ g_sleeps = <<>> /\ g_ret = None

LinkIdle ==
    /\ l_pc = "idle" /\ l_title = <<>> /\ l_max = 0 /\ l_anchors = <<>> /\ l_idx = 0
    /\ l_pairs = <<>> /\ l_seen = {} /\ l_html = "none" /\ l_listing = None
    /\ l_requests = <<>> /\ l_ret = None /\ nav_pc = "idle" /\ current_links = None

SumIdle ==
    /\ s_pc = "idle" /\ s_query = <<>> /\ s_handling = <<>> /\ s_best = None
    /\ s_search = "none" /\ s_requests = <<>> /\ s_ret = None

UiIdle ==
    /\ stack = <<>> /\ current = None /\ current_data = None /\ u_keys = {}
    /\ u_pc = "idle"
    /\ u_click = None /\ u_errors = <<>> /\ u_leads = 0 /\ u_runs = 0

InitGet ==
    /\ g_pc = "loop" /\ g_tries \in 0..MaxTries /\ g_i = 0 /\ g_last_err = None
    /\ g_log = <<>> /\ g_sleeps = <<>> /\ g_ret = None
    /\ LinkIdle /\ SumIdle /\ UiIdle

InitLinks == LinksCall /\ GetIdle /\ SumIdle /\ UiIdle

NextLinks ==
    \/ HtmlFetchFails
    \/ HtmlFetchOk
    \/ ScanReject
    \/ ScanAccept
    \/ HtmlReturn
    \/ HtmlEmpty
    \/ FallbackFails
    \/ FallbackMalformed
    \/ FallbackReturn
    \/ NavAfterLinks

SpecLinks == InitLinks /\ [][NextLinks]_vars

InitSummary == SummaryEntry /\ GetIdle /\ LinkIdle /\ UiIdle

NextSummary ==
    \/ DirectLookupReturns
    \/ DirectLookupRaises
    \/ OpenSearchReturns
    \/ OpenSearchNoCandidate
    \/ OpenSearchRaises
    \/ FullTextReturns
    \/ FullTextNoHit
    \/ FullTextRaises
    \/ NoBestReraise
    \/ SecondLookupReturns
    \/ SecondLookupRaises

SpecSummary == InitSummary /\ [][NextSummary]_vars

NextGet ==
    \/ GetNetworkError
    \/ GetRateLimited
    \/ GetHttpError
    \/ GetSuccess
    \/ GetExhausted

SpecGet == InitGet /\ [][NextGet]_vars

\* The call runs to its end: no request blocks for ever (timeout=12) and
\* every sleep is finite, so a step that can be taken is taken.
SpecGetFair == InitGet /\ [][NextGet]_vars /\ WF_vars(NextGet)

(***************************************************************************)
(* The Streamlit script: rabbit.py 196-326. Every interaction (a click, an *)
(* edit of the text input, the first load) runs the script once from top   *)
(* to bottom; st.session_state persists between the runs. A run is         *)
(* modelled in four steps: the toolbar handlers (lines 205-260), the       *)
(* startup fetch (263-273), the rendering of the note and the leads        *)
(* (275-297) and the handlers of the lead buttons and of Shuffle           *)
(* (298-326). safe_get_summary, get_random_summary and get_internal_links  *)
(* are modelled above; here a call of one of them is part of the handler's *)
(* step and gives one of the results it can give.                          *)
(***************************************************************************)
MaxRuns  == 3   \* most script runs of a session
MaxLeads == 1   \* most links get_internal_links gives the script

StackCap  == 200   \* lines 248-249, 312-313
LeadSlots == 5     \* lines 297, 300

linkLocals == <<l_pc, l_title, l_max, l_anchors, l_idx, l_pairs, l_seen, l_html,
                l_listing, l_requests, l_ret, nav_pc>>

\* What get_random_summary() or safe_get_summary(x) can do: raise, or return
\* the JSON of a summary: one with a title, one without, or a JSON value that
\* is no object. The title of the summary returned need not be the title
\* asked for (redirects, the search fallback of line 73).
SummaryResults ==
    {Raise([type |-> "HTTPError"])}
    \cup {Return(b) : b \in SummaryBodies \cup {JDict(EmptyFields), JList(<<>>)}}

\* note_from_summary(js): lines 138-142, the tuple (title, extract, url) as
\* a record. The title is the JSON value of the key "title". The summaries
\* modelled carry no "extract" and no "content_urls", so both defaults
\* apply; the default URL is kept as the title it is built from.
NoteFromSummary(js) ==
    LET title == DictGet(js, "title", JStr("Untitled"))
    IN  IF ~title.ok THEN title
        ELSE Ok([title |-> title.val, extract |-> "(No summary available.)",
                 url |-> [wiki |-> title.val]])

\* "js = ...summary(...); t, ex, u = note_from_summary(js)" inside a try:
\* the note, or the exception that sends control to the except clause.
FetchNote(summary) ==
    IF summary.kind = "raise" THEN Exc(summary.err.type)
    ELSE NoteFromSummary(summary.val)

\* The titles the links of an article point at.
UITitles == {"Cat", "Alan Turing"}

\* The lists get_internal_links(title) can return: at most max_links pairs
\* (target, label), in any order. With title None both of its requests
\* raise inside their try blocks (quote(None)) and it returns [] (lines
\* 80, 126-127, 135-136).
Leads == UNION {[1..n -> {<<t, t>> : t \in UITitles}] : n \in 0..MaxLeads}

LinkLists(title) == IF title = None THEN {<<>>} ELSE Leads

\* st.session_state as a handler sees it.
Session ==
    [stack |-> stack, current |-> current, data |-> current_data, links |-> current_links,
     keys |-> u_keys]

\* How a handler ends: the session it leaves, the st.error messages it shows.
Done(sess)        == [sess |-> sess, errors |-> <<>>]
Failed(sess, msg) == [sess |-> sess, errors |-> <<msg>>]

\* Lines 210-213 and 268-271: the note becomes the whole session.
StartAt(sess, note, links) ==
    [stack |-> <<note.title>>, current |-> note.title, data |-> note, links |-> links,
     keys |-> sess.keys \cup {"current_data", "current_links"}]

\* Lines 206-215.
RandomStartBody(sess, summary, links) ==
    LET note == FetchNote(summary)
    IN  IF ~note.ok THEN Failed(sess, "Random fetch failed. Try again.")
        ELSE Done(StartAt(sess, note.val, links))

\* Lines 264-273.
StartupBody(sess, summary, links) ==
    LET note == FetchNote(summary)
    IN  IF ~note.ok THEN Failed(sess, "Startup fetch failed. Hit Random start.")
        ELSE Done(StartAt(sess, note.val, links))

\* PopLast removing the oldest entry.
PopOldest(s) == Tail(s)

\* st.session_state.stack.pop(): line 227
PopLast(s) == SubSeq(s, 1, Len(s) - 1)

\* BackBody with the pop of line 227 done before the lookup of line 225.
BackBodyPopsFirst(sess, summary, links) ==
    IF Len(sess.stack) <= 1 THEN Done(sess)
    ELSE LET note == FetchNote(summary)
         IN  IF ~note.ok
             THEN Failed([sess EXCEPT !.stack = PopLast(sess.stack)], "Couldn't go back.")
             ELSE Done([stack |-> PopLast(sess.stack), current |-> note.val.title,
                        data |-> note.val, links |-> links,
                        keys |-> sess.keys \cup {"current_data", "current_links"}])

\* Lines 221-232; the lookup is for prev = stack[-2].
BackBody(sess, summary, links) ==
    IF Len(sess.stack) <= 1 THEN Done(sess)
    ELSE LET note == FetchNote(summary)
         IN  IF ~note.ok THEN Failed(sess, "Couldn't go back.")
             ELSE Done([stack |-> PopLast(sess.stack), current |-> note.val.title,
                        data |-> note.val, links |-> links,
                        keys |-> sess.keys \cup {"current_data", "current_links"}])

\* AppendCapped without the trimming.
AppendUncapped(s, t) == Append(s, t)

\* Lines 247-249 and 311-313: append, then keep the last 200.
AppendCapped(s, t) ==
    LET longer == Append(s, t)
    IN  IF Len(longer) > StackCap
        THEN SubSeq(longer, Len(longer) - StackCap + 1, Len(longer))
        ELSE longer

\* Lines 246-251 and 310-315.
NavigateTo(sess, note, links) ==
    [stack |-> AppendCapped(sess.stack, note.title), current |-> note.title,
     data |-> note, links |-> links,
     keys |-> sess.keys \cup {"current_data", "current_links"}]

\* Lines 242-253.
JumpBody(sess, summary, links) ==
    LET note == FetchNote(summary)
    IN  IF ~note.ok
        THEN Failed(sess, "Couldn't find that article. Try a more exact title or different keywords.")
        ELSE Done(NavigateTo(sess, note.val, links))

\* Lines 259-260.
ResetBody(sess) == Done([sess EXCEPT !.stack = <<>>, !.current = None])

\* Lines 306-317.
LeadBody(sess, summary, links) ==
    LET note == FetchNote(summary)
    IN  IF ~note.ok THEN Failed(sess, "That lead fizzled. Try another.")
        ELSE Done(NavigateTo(sess, note.val, links))

\* Lines 322-326.
ShuffleBody(sess, links) ==
    Done([sess EXCEPT !.links = links, !.keys = sess.keys \cup {"current_links"}])

\* The widget whose click started a run; "none" is a run without a click
\* (the first load, an edit of the text input).
Click(w) == [w |-> w, idx |-> 0]
Lead(k)  == [w |-> "lead", idx |-> k]

\* The clicks the page offers once a run has ended: the toolbar is drawn
\* before line 280, the lead buttons and Shuffle after it. The Back button
\* is drawn disabled at length <= 1 (line 220), but that is the length when
\* it was drawn; line 221 tests the length again.
PageClicks(pc, leads) ==
    {Click(w) : w \in {"none", "random", "back", "jump", "reset"}}
    \cup (IF pc = "end" THEN {Click("shuffle")} \cup {Lead(k) : k \in 0..(leads - 1)}
          ELSE {})

\* items = links[:5] (line 297)
Items(links) == Take(links, LeadSlots)

\* A handler ends as result says, and the run goes on at next_pc.
Leave(result, next_pc) ==
    /\ stack' = result.sess.stack
    /\ current' = result.sess.current
    /\ current_data' = result.sess.data
    /\ current_links' = result.sess.links
    /\ u_keys' = result.sess.keys
    /\ u_errors' = u_errors \o result.errors
    /\ u_pc' = next_pc
    /\ UNCHANGED <<u_click, u_leads, u_runs>>
    /\ UNCHANGED <<getVars, sumVars, linkLocals>>

\* "Random start" was clicked: lines 205-215.
RandomStart ==
    /\ u_pc = "toolbar" /\ u_click.w = "random"
    /\ \E summary \in SummaryResults, links \in Leads :
        Leave(RandomStartBody(Session, summary, links), "startup")

\* "Back" was clicked: lines 220-232.
Back ==
    /\ u_pc = "toolbar" /\ u_click.w = "back"
    /\ \E summary \in SummaryResults, links \in Leads :
        Leave(BackBody(Session, summary, links), "startup")

\* "Jump" was clicked, with some text in the input: lines 241-253.
Jump ==
    /\ u_pc = "toolbar" /\ u_click.w = "jump"
    /\ \E summary \in SummaryResults, links \in Leads :
        Leave(JumpBody(Session, summary, links), "startup")

\* "Reset" was clicked: lines 258-260.
Reset ==
    /\ u_pc = "toolbar" /\ u_click.w = "reset"
    /\ Leave(ResetBody(Session), "startup")

\* No button of the toolbar was clicked: lines 205-260 change nothing.
NoToolbarClick ==
    /\ u_pc = "toolbar" /\ u_click.w \in {"none", "lead", "shuffle"}
    /\ Leave(Done(Session), "startup")

\* "not v" for the values current takes: None or a JSON value.
Falsy(v) == IF v = None THEN TRUE ELSE ~Truthy(v)

\* "if not st.session_state.get('current')": lines 263-273.
StartupFetch ==
    /\ u_pc = "startup" /\ Falsy(current)
    /\ \E summary \in SummaryResults, links \in Leads :
        Leave(StartupBody(Session, summary, links), "render")

StartupSkip ==
    /\ u_pc = "startup" /\ ~Falsy(current)
    /\ Leave(Done(Session), "render")

\* Lines 275-297: the note is drawn from current_data, the lead buttons
\* from current_links.
RenderNote ==
    /\ u_pc = "render" /\ {"current_data", "current_links"} \subseteq u_keys
    /\ u_leads' = Len(Items(current_links))
    /\ u_pc' = "leads"
    /\ UNCHANGED <<stack, current, current_data, current_links, u_keys, u_click, u_errors, u_runs>>
    /\ UNCHANGED <<getVars, sumVars, linkLocals>>

\* Line 280 (or 293) reads a key that was never set: AttributeError, the
\* run ends there and nothing below line 280 is drawn.
RenderCrash ==
    /\ u_pc = "render" /\ ~({"current_data", "current_links"} \subseteq u_keys)
    /\ u_leads' = 0
    /\ u_pc' = "crashed"
    /\ UNCHANGED <<stack, current, current_data, current_links, u_keys, u_click, u_errors, u_runs>>
    /\ UNCHANGED <<getVars, sumVars, linkLocals>>

\* A lead button was clicked and is drawn again in this run: lines 297-317.
FollowLead ==
    /\ u_pc = "leads" /\ u_click.w = "lead" /\ u_click.idx < Len(Items(current_links))
    /\ \E summary \in SummaryResults, links \in Leads :
        Leave(LeadBody(Session, summary, links), "end")

\* "Shuffle leads" was clicked: lines 321-326.
Shuffle ==
    /\ u_pc = "leads" /\ u_click.w = "shuffle"
    /\ \E links \in LinkLists(current) :
        Leave(ShuffleBody(Session, links), "end")

\* Lines 297-326 without a click they handle.
NoLeadClick ==
    /\ u_pc = "leads"
    /\ \/ u_click.w \in {"none", "random", "back", "jump", "reset"}
       \/ u_click.w = "lead" /\ u_click.idx >= Len(Items(current_links))
    /\ Leave(Done(Session), "end")

\* The next interaction starts the next run.
NewRun ==
    /\ u_pc \in {"end", "crashed"} /\ u_runs < MaxRuns
    /\ u_click' \in PageClicks(u_pc, u_leads)
    /\ u_errors' = <<>>
    /\ u_runs' = u_runs + 1
    /\ u_pc' = "toolbar"
    /\ UNCHANGED <<stack, current, current_data, current_links, u_keys, u_leads>>
    /\ UNCHANGED <<getVars, sumVars, linkLocals>>

\* A new session at its first run, after lines 196-199: current_data and
\* current_links are not keys of st.session_state yet.
FreshSession ==
    /\ stack = <<>> /\ current = None
    /\ current_data = None /\ current_links = None /\ u_keys = {}
    /\ u_click = Click("none") /\ u_leads = 0

\* Titles as the summaries give them.
StoredTitles == {JStr(t) : t \in UITitles}

\* The histories of a session that has navigated StackCap - 1 times or more:
\* two titles in turn.
LongStacks ==
    {[k \in 1..n |-> IF k % 2 = 1 THEN a ELSE b] :
        n \in {StackCap - 1, StackCap}, a \in StoredTitles, b \in StoredTitles}

\* Such a session at the start of a run: the note of the last title, some
\* leads, a click the page offers.
LongSession ==
    /\ stack \in LongStacks
    /\ current = stack[Len(stack)]
    /\ current_data = [title |-> current, extract |-> "(No summary available.)",
                       url |-> [wiki |-> current]]
    /\ current_links \in LinkLists(current)
    /\ u_keys = {"current_data", "current_links"}
    /\ u_leads = Len(Items(current_links))
    /\ u_click \in PageClicks("end", u_leads)

LinkCallIdle ==
    /\ l_pc = "idle" /\ l_title = <<>> /\ l_max = 0 /\ l_anchors = <<>> /\ l_idx = 0
    /\ l_pairs = <<>> /\ l_seen = {} /\ l_html = "none" /\ l_listing = None
    /\ l_requests = <<>> /\ l_ret = None /\ nav_pc = "idle"

Init ==
    /\ FreshSession \/ LongSession
    /\ u_pc = "toolbar" /\ u_errors = <<>> /\ u_runs = 1
    /\ GetIdle /\ SumIdle /\ LinkCallIdle

Next ==
    \/ RandomStart
    \/ Back
    \/ Jump
    \/ Reset
    \/ NoToolbarClick
    \/ StartupFetch
    \/ StartupSkip
    \/ RenderNote
    \/ RenderCrash
    \/ FollowLead
    \/ Shuffle
    \/ NoLeadClick
    \/ NewRun

Spec == Init /\ [][Next]_vars

(***************************************************************************)
(* Properties of get_internal_links, checked under SpecLinks.              *)
(***************************************************************************)
LinksReturned == l_pc = "returned"

ViaHtml == LinksReturned /\ l_requests = <<"html">>

ViaListing == LinksReturned /\ l_requests = <<"html", "links">>

\* An anchor carries a broken-link marker: the class "new", or "redlink=1"
\* anywhere in its href.
IsBrokenLink(a) == "new" \in a.class \/ Contains(a.href, RedlinkMark)

\* The entries of the listing a returned target can come from.
ExistingArticles(listing) ==
    {EntryAt(listing, k).star : k \in {j \in 1..Len(listing) :
        EntryAt(listing, j).ns = 0 /\ EntryAt(listing, j).exists}}

\* C1: whenever get_internal_links returns, by the HTML path or by the
\* listing path, the list it returns has at most max_links entries.
C1_AtMostMaxLinks == LinksReturned => Len(l_ret) <= l_max

\* A call returned fewer links from the HTML path than its loop collected.
C1_Witness == ViaHtml /\ l_max >= 1 /\ Len(l_pairs) > l_max /\ Len(l_ret) = l_max

\* C2: no returned target equals the title, compared in lower case with
\* underscores as spaces, whichever path produced the list.
C2_NoSelfReference ==
    LinksReturned =>
        \A k \in 1..Len(l_ret) : Normalize(l_ret[k].target) # Normalize(l_title)

\* C3: no two returned entries have targets that are equal in lower case
\* with underscores as spaces, whichever path produced the list.
C3_NoDuplicateTargets ==
    LinksReturned =>
        \A j, k \in 1..Len(l_ret) :
            j # k => Normalize(l_ret[j].target) # Normalize(l_ret[k].target)

\* C4: every entry the HTML path returns was made from an anchor that
\* carries no broken-link marker.
C4_BrokenLinksExcluded ==
    /\ \A k \in 1..Len(l_pairs) : l_pairs[k].src \in 1..Len(l_anchors)
    /\ \A k \in 1..Len(l_pairs) : ~IsBrokenLink(AnchorAt(l_anchors, l_pairs[k].src))
    /\ ViaHtml => \A k \in 1..Len(l_ret) :
                    /\ l_ret[k].src \in 1..Len(l_anchors)
                    /\ ~IsBrokenLink(AnchorAt(l_anchors, l_ret[k].src))

\* The article holds an anchor marked as broken and an unmarked anchor to the
\* same target, and the target is returned.
C4_Witness ==
    /\ ViaHtml
    /\ \E i \in 1..Len(l_anchors) : \E k \in 1..Len(l_ret) :
        /\ IsBrokenLink(AnchorAt(l_anchors, i))
        /\ i < l_ret[k].src
        /\ l_ret[k].target = DecodedOf(AnchorAt(l_anchors, i))

\* C5: the listing endpoint is requested exactly when the HTML path ended
\* with no pair (it raised, or no anchor qualified), and after the HTML
\* request; a list returned from it holds only titles the listing gives in
\* namespace 0 and marks as existing, and at most max_links of them.
C5_FallbackIffNoLinks ==
    /\ l_requests \in {<<>>, <<"html">>, <<"html", "links">>}
    /\ l_pc = "fallback" => l_pairs = <<>>
    /\ LinksReturned => (ViaListing <=> l_pairs = <<>>)
    /\ (ViaListing /\ "links" \in DOMAIN l_listing) =>
        /\ \A k \in 1..Len(l_ret) : l_ret[k].target \in ExistingArticles(l_listing.links)
        /\ Len(l_ret) <= l_max

\* No anchor qualified, and the listing supplied the links, dropping an entry
\* for a missing page.
C5_Witness ==
    /\ ViaListing /\ l_html = "empty" /\ l_ret # <<>>
    /\ \E k \in 1..Len(l_listing.links) : ~EntryAt(l_listing.links, k).exists

\* The listing path raised: its request failed or an entry was malformed.
ListingFailed == l_listing = [failed |-> TRUE] \/ ListingRaises(l_listing.links)

\* C6: get_internal_links never raises: when the HTML path raises, the
\* listing is requested, and when that raises too the call returns []. The
\* navigation action that called it therefore stores the list returned and
\* completes, with an empty list when both requests failed.
C6_NeverRaises ==
    /\ l_pc # "raised"
    /\ l_html = "failed" => l_pc = "fallback" \/ ViaListing
    /\ (LinksReturned /\ l_html = "failed" /\ ListingFailed) => l_ret = <<>>
    /\ nav_pc # "error"
    /\ (LinksReturned /\ nav_pc = "links") => ENABLED NavAfterLinks
    /\ nav_pc = "done" => LinksReturned /\ current_links = l_ret

\* Both requests failed and the navigation action completed with no links.
C6_Witness ==
    /\ nav_pc = "done" /\ l_html = "failed" /\ l_listing = [failed |-> TRUE]
    /\ current_links = <<>>

(***************************************************************************)
(* Properties of _get, checked under SpecGet.                              *)
(***************************************************************************)
AllRateLimited == \A k \in 1..Len(g_log) : g_log[k].status \in {429, 503}

\* C7: with the default budget and nothing but 429/503 responses, _get
\* issues 3 requests and no 4th, returns no response, and raises the
\* HTTPError recorded for the 3rd response.
C7_RateLimitedBudget ==
    (g_tries = DefaultTries /\ AllRateLimited) =>
        /\ Len(g_log) <= 3
        /\ g_pc # "returned"
        /\ (g_pc = "loop" /\ Len(g_log) < 3) => GetLoopRuns
        /\ (g_pc = "loop" /\ Len(g_log) = 3) => ~GetLoopRuns
        /\ g_pc = "raised" =>
            /\ Len(g_log) = 3
            /\ g_ret = HTTPError(g_log[3].status, 2)

\* Three rate-limit responses, then the error.
C7_Witness ==
    /\ g_tries = DefaultTries /\ AllRateLimited /\ g_pc = "raised"
    /\ Len(g_log) = 3 /\ g_ret.type = "HTTPError"

(***************************************************************************)
(* Properties of safe_get_summary and search_title_best, checked under     *)
(* SpecSummary.                                                            *)
(***************************************************************************)
\* The request answered with a JSON body.
Answered(r) == r.outcome.got /\ r.outcome.json

\* The titles an opensearch response offers, in order.
OpenSearchCandidates(r) ==
    LET d == r.outcome.body
    IN  IF Answered(r) /\ d.t = "list" /\ Len(d.items) >= 2 /\ d.items[2].t = "list"
        THEN d.items[2].items ELSE <<>>

\* The hits a full-text search response lists, in order.
FullTextHits(r) ==
    LET d == r.outcome.body
    IN  IF /\ Answered(r) /\ d.t = "dict" /\ "query" \in DOMAIN d.fields
           /\ d.fields.query.t = "dict" /\ "search" \in DOMAIN d.fields.query.fields
           /\ d.fields.query.fields.search.t = "list"
        THEN d.fields.query.fields.search.items ELSE <<>>

\* The first hit names a title.
HasFullTextCandidate(r) ==
    /\ FullTextHits(r) # <<>>
    /\ FullTextHits(r)[1].t = "dict"
    /\ "title" \in DOMAIN FullTextHits(r)[1].fields

\* The title search_title_best found is none or empty.
NoCandidateFound == s_best = JNull \/ s_best = JStr("")

\* C8: when the direct lookup raised and the search found no title, and
\* also when both search requests failed, safe_get_summary raises the
\* exception of the direct lookup, which is the first request.
C8_OriginalErrorReraised ==
    (s_pc = "raised" /\ s_search = "returned" /\ NoCandidateFound) =>
        /\ s_requests[1].endpoint = "summary" /\ s_requests[1].arg = s_query
        /\ ~Answered(s_requests[1])
        /\ s_ret = Raise(RequestError(s_requests[1].outcome, 1))

\* Both search requests failed and the call raised.
C8_Witness ==
    /\ s_pc = "raised" /\ Len(s_requests) = 3
    /\ ~s_requests[2].outcome.got /\ ~s_requests[3].outcome.got
    /\ s_ret.err.request = 1

\* C9: a direct lookup that succeeds is returned with no further request;
\* after one that fails, a title found whose lookup succeeds gives the
\* result; the call raises only when the direct lookup failed and no title
\* was found or the lookup of the title found failed.
C9_FailsOnlyIfBothFail ==
    LET n == Len(s_requests)
    IN  /\ n >= 1 => s_requests[1] = Request("summary", s_query, s_requests[1].outcome)
        /\ (n >= 1 /\ Answered(s_requests[1])) =>
            /\ s_pc = "returned" /\ n = 1
            /\ s_ret = Return(s_requests[1].outcome.body)
        /\ (s_pc = "returned" /\ n > 1) =>
            /\ ~NoCandidateFound
            /\ s_requests[n].endpoint = "summary" /\ s_requests[n].arg = s_best.s
            /\ Answered(s_requests[n])
            /\ s_ret = Return(s_requests[n].outcome.body)
        /\ s_pc = "raised" =>
            /\ ~Answered(s_requests[1])
            /\ \/ NoCandidateFound
               \/ /\ s_requests[n].endpoint = "summary" /\ s_requests[n].arg = s_best.s
                  /\ ~Answered(s_requests[n])
                  /\ s_ret = Raise(RequestError(s_requests[n].outcome, n))
        /\ (s_pc = "decide" /\ ~NoCandidateFound) => ENABLED SecondLookupReturns

\* The direct lookup failed, the fuzzy match found nothing, the full-text
\* search found a title and its summary is returned.
C9_Witness ==
    /\ s_pc = "returned" /\ Len(s_requests) = 4
    /\ s_requests[4].arg = "Alan Turing" /\ s_query = "turing"
    /\ s_ret = Return(s_requests[4].outcome.body)

\* C10: search_title_best requests opensearch first and the full-text
\* search only after opensearch failed or offered no title; it returns the
\* first title of the first endpoint that offers one, None when neither
\* does, and never raises.
C10_SearchOrderAndResult ==
    /\ s_search # "raised"
    /\ \A k \in 1..Len(s_requests) :
        /\ s_requests[k].endpoint = "opensearch" => k = 2
        /\ s_requests[k].endpoint = "search" =>
            /\ k = 3 /\ s_requests[2].endpoint = "opensearch"
            /\ OpenSearchCandidates(s_requests[2]) = <<>>
    /\ s_pc = "fulltext" => OpenSearchCandidates(s_requests[2]) = <<>>
    /\ s_search = "returned" =>
        /\ Len(s_requests) >= 2 /\ s_requests[2].endpoint = "opensearch"
        /\ IF OpenSearchCandidates(s_requests[2]) # <<>>
           THEN s_best = OpenSearchCandidates(s_requests[2])[1]
           ELSE /\ Len(s_requests) >= 3 /\ s_requests[3].endpoint = "search"
                /\ s_best = IF HasFullTextCandidate(s_requests[3])
                            THEN FullTextHits(s_requests[3])[1].fields.title
                            ELSE JNull

\* opensearch answered with a body of another shape, and the full-text
\* search supplied the title.
C10_Witness ==
    /\ s_search = "returned" /\ Len(s_requests) >= 3
    /\ Answered(s_requests[2]) /\ s_requests[2].outcome.body.t = "dict"
    /\ s_best = JStr("Alan Turing")

(***************************************************************************)
(* Properties of _get's retries, checked under SpecGet and SpecGetFair.    *)
(***************************************************************************)
\* Positions of the log whose request ended in a requests exception raised
\* by SESSION.get itself.
NetworkFailures == {k \in 1..Len(g_log) : g_log[k].kind = "exception"}

\* C16 (as stated): after a network-level failure _get sleeps a delay that is
\* the same at every attempt number and is shorter than the rate-limit
\* backoff 1.5 * (i + 1) of the same attempt.
C16_FixedShorterBackoff ==
    /\ \A j \in NetworkFailures, k \in NetworkFailures : g_sleeps[j] = g_sleeps[k]
    /\ \A k \in NetworkFailures : g_sleeps[k] < 15 * k

\* C16 (amended): after a network-level failure at the k-th attempt _get
\* sleeps 0.5 * k seconds, a delay that grows with the attempt number, and
\* that is shorter than the rate-limit backoff 1.5 * k of the same attempt.
C16_LinearShorterBackoff ==
    \A k \in NetworkFailures :
        /\ k <= Len(g_sleeps)
        /\ g_sleeps[k] = 5 * k
        /\ g_sleeps[k] < 15 * k
        /\ \A j \in NetworkFailures : j < k => g_sleeps[j] < g_sleeps[k]

C16_Witness ==
    /\ g_pc = "raised" /\ Len(g_log) = 3
    /\ NetworkFailures = {1, 3}
    /\ g_sleeps[1] = 5 /\ g_sleeps[3] = 15

\* An attempt that does not end the call: a network exception, a 429/503
\* response or any other error status.
AttemptFailed(r) == r.kind = "exception" \/ r.status \in {429, 503} \/ r.status >= 400

\* The error line 39 raises when the last attempt produced r.
ErrorOfAttempt(r, i) ==
    IF r.kind = "exception" THEN [type |-> "RequestException", status |-> 0, attempt |-> i]
    ELSE [type |-> "HTTPError", status |-> r.status, attempt |-> i]

\* Every request but the last failed; the call returns the response of the
\* first attempt that did not fail; each failed attempt used up one try.
AttemptsAsClaimed ==
    /\ Len(g_log) <= g_tries
    /\ g_pc = "loop" => Len(g_log) = g_i
    /\ \A k \in 1..(Len(g_log) - 1) : AttemptFailed(g_log[k])
    /\ g_pc = "returned" =>
          /\ g_log # <<>>
          /\ ~AttemptFailed(g_log[Len(g_log)])
          /\ g_ret = g_log[Len(g_log)]
    /\ g_pc = "raised" =>
          /\ Len(g_log) = g_tries
          /\ \A k \in 1..Len(g_log) : AttemptFailed(g_log[k])

\* C20 (as stated): _get terminates; it returns the response of the first
\* attempt that is neither a 429/503 nor an error status; every other
\* attempt uses up one of the tries; when none succeeds exactly tries
\* requests were issued and the error of the last attempt is raised.
C20_LastErrorRaised ==
    /\ [](/\ AttemptsAsClaimed
          /\ g_pc = "raised" =>
                /\ g_log # <<>>
                /\ g_ret = ErrorOfAttempt(g_log[Len(g_log)], Len(g_log) - 1))
    /\ <>(g_pc \in {"returned", "raised"})

\* C20 (amended): as stated when tries >= 1; with tries = 0 no request is
\* issued, there is no attempt, and a RuntimeError is raised.
C20_TerminatesWithinTries ==
    /\ [](/\ AttemptsAsClaimed
          /\ g_pc = "raised" =>
                /\ g_tries >= 1 => g_ret = ErrorOfAttempt(g_log[g_tries], g_tries - 1)
                /\ g_tries = 0 => g_log = <<>> /\ g_ret.type = "RuntimeError")
    /\ <>(g_pc \in {"returned", "raised"})

C20_Witness ==
    /\ g_pc = "raised" /\ g_tries = 3 /\ Len(g_log) = 3
    /\ g_log[1].status = 404 /\ g_log[2].kind = "exception" /\ g_log[3].status = 503
    /\ g_ret.status = 503

(***************************************************************************)
(* Properties of the anchor scan of get_internal_links, checked under      *)
(* SpecLinks.                                                              *)
(***************************************************************************)
\* The href path after its "/wiki/" or "./" prefix, cut before the first
\* "#" or "?".
ClaimedTarget(href) ==
    LET path  == IF Len(href) >= 6 /\ SubSeq(href, 1, 6) = <<"/", "w", "i", "k", "i", "/">>
                 THEN SubSeq(href, 7, Len(href))
                 ELSE SubSeq(href, 3, Len(href))
        marks == {k \in 1..Len(path) : path[k] \in {"#", "?"}}
    IN  IF marks = {} THEN path
        ELSE SubSeq(path, 1, (CHOOSE k \in marks : \A j \in marks : k <= j) - 1)

\* For every anchor of the articles modelled, by its position in
\* AllAnchors: its target as described above, the target percent-decoded,
\* the decoded target in the form two targets are compared in, and its
\* label with underscores as spaces.
ClaimedTargets ==
    [n \in 1..Len(AllAnchors) |-> ClaimedTarget(Strip(AllAnchors[n].href))]

ClaimedDecoded == [n \in 1..Len(AllAnchors) |-> Unquote(ClaimedTargets[n])]

ClaimedKeys == [n \in 1..Len(AllAnchors) |-> Normalize(ClaimedDecoded[n])]

ClaimedLabels ==
    [n \in 1..Len(AllAnchors) |-> Strip(ReplaceUnderscore(AllAnchors[n].text))]

\* The hrefs of the article of the example.
ExampleHrefs ==
    <<<<"/", "w", "i", "k", "i", "/", "C", "a", "t">>,
      <<"/", "w", "i", "k", "i", "/", "F", "i", "l", "e", ":", "C", "a", "t", ".", "j", "p", "g">>,
      <<"/", "w", "i", "k", "i", "/", "M", "a", "i", "n", "_", "P", "a", "g", "e">>,
      <<"/", "w", "i", "k", "i", "/", "C", "a", "t", "#", "H", "i", "s", "t", "o", "r", "y">>>>

IsExampleArticle ==
    /\ l_title = <<"C", "a", "t">>
    /\ Len(l_anchors) = 4
    /\ [k \in 1..4 |-> AnchorAt(l_anchors, k).href] = ExampleHrefs

\* C17: every pair the scan collects was made from an anchor whose target
\* (the href path after "/wiki/" or "./", without fragment and query) is not
\* empty, holds no ":" and is not Main_Page, and the pair carries that
\* target, percent-decoded; for the article /wiki/Cat, /wiki/File:Cat.jpg,
\* /wiki/Main_Page, /wiki/Cat#History with title Cat the scan collects no
\* pair, so the HTML path returns no link.
C17_TargetAndRejection ==
    /\ \A k \in 1..Len(l_pairs) :
        l_pairs[k].src \in 1..Len(l_anchors) /\
        LET t == ClaimedTargets[l_anchors[l_pairs[k].src]]
        IN  /\ t # <<>>
            /\ \A j \in 1..Len(t) : t[j] # ":"
            /\ t # <<"M", "a", "i", "n", "_", "P", "a", "g", "e">>
            /\ l_pairs[k].target = ClaimedDecoded[l_anchors[l_pairs[k].src]]
    /\ IsExampleArticle => l_pairs = <<>> /\ l_html # "links"

\* The scan of the example article is over and has collected nothing.
C17_Witness ==
    /\ IsExampleArticle /\ l_pc = "scan" /\ l_idx = 4 /\ l_pairs = <<>>

\* The anchors the loop body accepts (it reaches line 114), for each title.
Qualifying ==
    [t \in Titles |-> {n \in 1..Len(AllAnchors) : ~Rejected(AllAnchors[n], t)}]

\* The positions up to i of the article whose anchors the loop body accepts.
QualifyingUpTo(i) == {j \in 1..i : l_anchors[j] \in Qualifying[l_title]}

\* C18: every pair the scan collects was made from the first qualifying
\* anchor of its target and carries that anchor's decoded target and label;
\* while the loop goes on fewer than 3 * max_links pairs are collected, and
\* never more than that (one, if max_links is 0); every link the HTML path
\* returns is among the first 3 * max_links distinct qualifying targets in
\* document order.
C18_FirstOccurrenceAndCap ==
    /\ \A k \in 1..Len(l_pairs) :
        l_pairs[k].src \in 1..Len(l_anchors) /\
        LET i == l_pairs[k].src
        IN  /\ i \in QualifyingUpTo(i)
            /\ \A j \in QualifyingUpTo(i - 1) :
                    ClaimedKeys[l_anchors[j]] # ClaimedKeys[l_anchors[i]]
            /\ l_pairs[k].target = ClaimedDecoded[l_anchors[i]]
            /\ l_pairs[k].label = ClaimedLabels[l_anchors[i]]
    /\ \A j, k \in 1..Len(l_pairs) : j < k => l_pairs[j].src < l_pairs[k].src \/ l_html = "links"
    /\ (l_pc = "scan" /\ l_idx < Len(l_anchors) /\ l_pairs # <<>>) => Len(l_pairs) < 3 * l_max
    /\ Len(l_pairs) <= (IF l_max = 0 THEN 1 ELSE 3 * l_max)
    /\ ViaHtml =>
          \A k \in 1..Len(l_ret) :
              /\ \E j \in 1..Len(l_pairs) : l_pairs[j] = l_ret[k]
              /\ Cardinality({ClaimedKeys[l_anchors[j]] :
                                j \in QualifyingUpTo(l_ret[k].src)}) <= 3 * l_max

\* With max_links 1 the call returned after three distinct targets, before
\* the end of an article that repeats a target under another label.
C18_Witness ==
    /\ ViaHtml /\ l_max = 1 /\ Len(l_pairs) = 3 /\ l_idx < Len(l_anchors)
    /\ \E i \in QualifyingUpTo(l_idx) : \E k \in 1..3 :
        /\ l_pairs[k].src < i
        /\ ClaimedKeys[l_anchors[i]] = ClaimedKeys[l_anchors[l_pairs[k].src]]
        /\ ClaimedLabels[l_anchors[i]] # l_pairs[k].label

(***************************************************************************)
(* Properties of the session state across script runs, checked under Spec. *)
(***************************************************************************)
\* The session state the claims speak of.
session == <<stack, current, current_data, current_links, u_keys>>

\* A run has drawn the note (line 287) from current_data.
NoteDisplayed == u_pc = "leads"

\* C11: whenever a note is displayed, the history is not empty and its last
\* entry is the title of the note displayed, which is also current.
C11_LastEntryIsDisplayed ==
    NoteDisplayed =>
        /\ stack # <<>>
        /\ stack[Len(stack)] = current_data.title
        /\ current = current_data.title

\* A first article has been stored: lines 208-210 or 266-270 have run, or
\* the session started further on.
NavigationStarted == "current_data" \in u_keys

RunEnded == u_pc \in {"end", "crashed"}

\* C12: once a first article has been stored, the history is not empty at
\* the end of any script run.
C12_HistoryStaysNonEmpty == (RunEnded /\ NavigationStarted) => stack # <<>>

\* This step is the Jump handler, or the handler of a lead button that is
\* drawn, and it showed no error.
Appended ==
    /\ u_errors' = u_errors
    /\ \/ u_pc = "toolbar" /\ u_click.w = "jump" /\ u_pc' = "startup"
       \/ /\ u_pc = "leads" /\ u_click.w = "lead" /\ u_pc' = "end"
          /\ u_click.idx < 5 /\ u_click.idx < Len(current_links)

\* C13: the history never holds more than 200 titles; a Jump or a followed
\* lead that succeeds on a history of 200 titles drops exactly the oldest
\* one, keeps the others in order and puts the new title last; on a shorter
\* history it appends the new title.
C13_CapAndTrim ==
    [][/\ Len(stack) <= 200 /\ Len(stack') <= 200
       /\ (Appended /\ Len(stack) = 200) =>
             /\ Len(stack') = 200
             /\ \A k \in 1..199 : stack'[k] = stack[k + 1]
             /\ stack'[200] = current_data'.title
       /\ (Appended /\ Len(stack) < 200) =>
             stack' = stack \o <<current_data'.title>>]_vars

\* Two Jumps in a row on a history of at least 199 titles: the second one
\* found 200 titles.
C13_Witness ==
    /\ u_runs = 2 /\ u_pc = "startup" /\ u_click.w = "jump" /\ u_errors = <<>>
    /\ Len(stack) = 200
    /\ stack[199] = JStr("Untitled") /\ stack[200] = JStr("Alan Turing")
    /\ stack[198] # JStr("Untitled")

\* new is old with one title appended, trimmed to the cap.
AppendedOne(old, new) ==
    \/ Len(new) = Len(old) + 1 /\ SubSeq(new, 1, Len(old)) = old
    \/ /\ Len(old) = 200 /\ Len(new) = 200
       /\ \A k \in 1..199 : new[k] = old[k + 1]

\* new is old without its last entry.
PoppedLast(old, new) ==
    old # <<>> /\ Len(new) = Len(old) - 1 /\ SubSeq(old, 1, Len(new)) = new

ToolbarStep(w) == u_pc = "toolbar" /\ u_click.w = w

\* C14 (as stated): every step changes the history only by appending one
\* title at its end (trimmed to the cap) or, in the Back handler, by
\* removing its last entry.
C14_AppendOrPopOnly ==
    [][\/ stack' = stack
       \/ AppendedOne(stack, stack')
       \/ ToolbarStep("back") /\ PoppedLast(stack, stack')]_vars

\* C14 (amended): Jump and a followed lead change the history only by
\* appending one title (trimmed to the cap); Back only by removing its last
\* entry; Reset only by emptying it; Random start and the startup fetch only
\* by replacing it with the one title fetched; nothing else changes it.
C14_HistoryChanges ==
    [][stack' # stack =>
        \/ /\ ToolbarStep("jump") \/ (u_pc = "leads" /\ u_click.w = "lead")
           /\ AppendedOne(stack, stack')
           /\ stack'[Len(stack')] = current_data'.title
        \/ ToolbarStep("back") /\ PoppedLast(stack, stack')
        \/ ToolbarStep("reset") /\ stack' = <<>>
        \/ /\ ToolbarStep("random") \/ u_pc = "startup"
           /\ stack' = <<current_data'.title>>]_vars

\* Reset has just emptied the history of a session that had one.
C14_Witness ==
    /\ u_pc = "startup" /\ u_click.w = "reset" /\ stack = <<>>
    /\ NavigationStarted /\ current = None

\* This step is the handler of Random start, Back, Jump or a lead button,
\* and it showed its error message.
HandlerFailed ==
    /\ u_errors' # u_errors
    /\ \/ u_pc = "toolbar" /\ u_click.w \in {"random", "back", "jump"}
       \/ u_pc = "leads" /\ u_click.w = "lead"

\* C15: a Random start, Back, Jump or follow-a-lead handler whose summary
\* lookup fails leaves stack, current, current_data and current_links as
\* they were.
C15_FailureChangesNothing == [][HandlerFailed => session' = session]_vars

\* Back has just failed on a history of two or more titles.
C15_Witness ==
    /\ u_pc = "startup" /\ u_click.w = "back" /\ Len(stack) >= 2
    /\ u_errors = <<"Couldn't go back.">>

\* C19: when a run reaches the drawing of the note and of the lead buttons,
\* st.session_state holds current_data and current_links.
C19_RenderReadsSetValues ==
    u_pc = "render" => {"current_data", "current_links"} \subseteq u_keys

====
